---- MODULE Spec2Model ----
(***************************************************************************)
(* A model of advanced-vector/vector.h: RawMemory<T> (a block of raw       *)
(* storage) and Vector<T> (size_ live objects at the front of a            *)
(* RawMemory<T>).  The heap is explicit: a block is allocated, holds one   *)
(* slot per element, and is deallocated; a slot is raw memory or holds a   *)
(* live object of the element type T.  T is a probe type whose traits     *)
(* (nothrow move, copy constructible) are fixed in the initial state and   *)
(* whose fallible operations throw at a chosen count.                      *)
(***************************************************************************)
EXTENDS Integers, Sequences, FiniteSets, TLC

\* Bounds of the model: the capacities, and the width in bits of size_t.
MaxCap == 4
MaxCapPair == 2
SizeBits == 16

\* The two Vector objects of the program, and a block for each and one more
\* for the buffer a call allocates before it releases the old one.
Vecs == {"a", "b"}
Blocks == 1..(Cardinality(Vecs) + 1)

\* The element type T carries one bit: T() holds 0.
Values == {0, 1}

\* nullptr, the content of a slot of raw memory, the value a moved-from
\* object is left with, and the value of a value-initialized object.
Null == 0
Raw == -1
MovedFrom == -2
Default == 0

VARIABLES
    traits,   \* the element type: [nothrowMove, copyable]
    vec,      \* the Vector objects: [alive, data: [buffer, capacity], size]
    heap,     \* the blocks: [alloc, slots]
    last,     \* the call that produced this state
    stack,    \* the reference stack of the push/pop scenario
    limit     \* the largest capacity the run allocates

vars == <<traits, vec, heap, last, stack, limit>>

\* The fail point at which operator new throws std::bad_alloc
AllocFails == -1

\* 0: nothing throws; k > 0: the k-th fallible element operation of the call
\* throws; AllocFails: the allocation of the call throws.
FailPoints == AllocFails..(limit + 1)

----------------------------------------------------------------------------
\* The heap

FreeBlock == [alloc |-> FALSE, slots |-> <<>>]

HasFree(h) == \E b \in Blocks : ~h[b].alloc

NewBlock(h) == CHOOSE b \in Blocks : ~h[b].alloc /\ \A b2 \in Blocks : b2 < b => h[b2].alloc

LiveCount(s) == Cardinality({j \in DOMAIN s : s[j] /= Raw})

GetRange(h, b, o, n) == [j \in 1..n |-> h[b].slots[o + j]]

PutRange(h, b, o, f) ==
    IF Len(f) = 0 THEN h
    ELSE [h EXCEPT ![b].slots =
             [j \in DOMAIN h[b].slots |->
                 IF j > o /\ j <= o + Len(f) THEN f[j - o] ELSE h[b].slots[j]]]

Fill(n, x) == [j \in 1..n |-> x]

----------------------------------------------------------------------------
\* The run of one call: the heap, the countdown to the throwing operation,
\* the exception in flight, the step that threw, the live objects that were
\* in blocks when they were deallocated, undefined behaviour, and whether a
\* relocation move-constructed or copy-constructed elements.

Ctx(h, k) ==
    [h |-> h, k |-> k, ex |-> FALSE, at |-> "none", lost |-> 0, ub |-> FALSE,
     moved |-> FALSE, copied |-> FALSE]

Hit(c, n) == c.k >= 1 /\ c.k <= n

Throw(c, label) == [c EXCEPT !.ex = TRUE, !.at = label, !.k = 0]

Pass(c, n) == IF c.k <= 0 THEN c ELSE [c EXCEPT !.k = c.k - n]

\* Whether T's move constructor and move assignment may throw.
MoveFallible == IF traits.nothrowMove THEN 0 ELSE 1

\* A RawMemory that reports one slot more than it allocated: the variant of
\* RawMemoryNew that fails C11
RawMemoryNewPadded(c, n) ==
    [buffer |-> IF n /= 0 /\ c.k /= AllocFails THEN NewBlock(c.h) ELSE Null, capacity |-> n + 1]

\* RawMemory(size_t capacity) and Allocate: n != 0 ? operator new(...) : nullptr;
\* when operator new throws, no RawMemory is constructed
RawMemoryNew(c, n) ==
    [buffer |-> IF n /= 0 /\ c.k /= AllocFails THEN NewBlock(c.h) ELSE Null, capacity |-> n]

Allocate(c, n) ==
    IF n = 0 THEN c
    ELSE IF c.k = AllocFails THEN Throw(c, "alloc")
    ELSE [c EXCEPT !.h[NewBlock(c.h)] = [alloc |-> TRUE, slots |-> Fill(n, Raw)]]

EmptyRaw == [buffer |-> Null, capacity |-> 0]

\* ~RawMemory and Deallocate: operator delete of the block, whatever it holds
Deallocate(c, buf) ==
    IF buf = Null THEN c
    ELSE IF ~c.h[buf].alloc THEN [c EXCEPT !.ub = TRUE]
    ELSE [c EXCEPT !.h[buf] = FreeBlock,
                   !.lost = @ + LiveCount(c.h[buf].slots)]

\* RawMemory::Swap
RawSwap(x, y) == <<y, x>>

\* A move that leaves rhs its buffer: the variant of RawMoveAssign that
\* fails C19
RawMoveAssignShares(lhs, rhs) == <<[buffer |-> rhs.buffer, capacity |-> rhs.capacity], rhs>>

\* RawMemory::operator=(RawMemory&&): the fields are overwritten
RawMoveAssign(lhs, rhs) == <<[buffer |-> rhs.buffer, capacity |-> rhs.capacity], EmptyRaw>>

\* std::destroy_n, std::destroy, std::destroy_at
DestroyN(c, b, o, n) ==
    IF c.ex \/ n = 0 THEN c
    ELSE LET dead == \E j \in 1..n : c.h[b].slots[o + j] = Raw
         IN [c EXCEPT !.h = PutRange(c.h, b, o, Fill(n, Raw)),
                      !.ub = @ \/ dead]

\* std::destroy_at(p), p = buffer + o: outside the block, or at raw memory,
\* it is undefined
DestroyAt(c, b, o) ==
    IF b = Null \/ o >= Len(c.h[b].slots) THEN [c EXCEPT !.ub = TRUE]
    ELSE DestroyN(c, b, o, 1)

\* std::uninitialized_copy_n, std::uninitialized_copy: on a throw the copies made are destroyed
UninitCopyN(c, sb, so, n, db, do, label) ==
    IF c.ex \/ n = 0 THEN c
    ELSE IF Hit(c, n) THEN Throw(c, label)
    ELSE Pass([c EXCEPT !.h = PutRange(c.h, db, do, GetRange(c.h, sb, so, n))], n)

\* std::uninitialized_move_n, std::uninitialized_move
UninitMoveN(c, sb, so, n, db, do, label) ==
    IF c.ex \/ n = 0 THEN c
    ELSE IF Hit(c, n * MoveFallible)
         THEN Throw([c EXCEPT !.h = PutRange(c.h, sb, so, Fill(c.k - 1, MovedFrom))], label)
    ELSE Pass([c EXCEPT !.h = PutRange(PutRange(c.h, db, do, GetRange(c.h, sb, so, n)),
                                       sb, so, Fill(n, MovedFrom))],
              n * MoveFallible)

\* std::uninitialized_value_construct_n, std::uninitialized_value_construct
UninitValueConstructN(c, b, o, n, label) ==
    IF c.ex \/ n = 0 THEN c
    ELSE IF Hit(c, n) THEN Throw(c, label)
    ELSE Pass([c EXCEPT !.h = PutRange(c.h, b, o, Fill(n, Default))], n)

\* A relocation that never copies: the variant of UseMove that fails C4
AlwaysMove == TRUE

\* A selection that forgets the types that cannot be copied: the variant of
\* UseMove that fails C12
UseMoveIfNothrow == traits.nothrowMove

\* if constexpr (is_nothrow_move_constructible_v<T> || !is_copy_constructible_v<T>)
UseMove == traits.nothrowMove \/ ~traits.copyable

Relocate(c, sb, so, n, db, do, label) ==
    IF c.ex \/ n = 0 THEN c
    ELSE IF UseMove THEN [UninitMoveN(c, sb, so, n, db, do, label) EXCEPT !.moved = TRUE]
    ELSE [UninitCopyN(c, sb, so, n, db, do, label) EXCEPT !.copied = TRUE]

\* T(T&&) into raw slot di from slot si
MoveConstructElem(c, b, si, di, label) ==
    IF c.ex THEN c
    ELSE IF Hit(c, MoveFallible) THEN Throw(c, label)
    ELSE Pass([c EXCEPT !.h = PutRange(PutRange(c.h, b, di, <<c.h[b].slots[si + 1]>>),
                                       b, si, <<MovedFrom>>)],
              MoveFallible)

\* T::operator=(T&&) from slot si to slot di of one block
MoveAssignElem(c, b, si, di, label) ==
    IF c.ex THEN c
    ELSE IF Hit(c, MoveFallible) THEN Throw(c, label)
    ELSE Pass([c EXCEPT !.h = PutRange(PutRange(c.h, b, di, <<c.h[b].slots[si + 1]>>),
                                       b, si, <<MovedFrom>>)],
              MoveFallible)

\* T::operator=(const T&) from slot i of block sb to slot i of block db
CopyAssignElem(c, sb, db, i, label) ==
    IF c.ex THEN c
    ELSE IF Hit(c, 1) THEN Throw(c, label)
    ELSE Pass([c EXCEPT !.h = PutRange(c.h, db, i, <<c.h[sb].slots[i + 1]>>)], 1)

\* for (size_t i = 0; i < n; ++i) data_[i] = rhs.data_[i];
RECURSIVE CopyAssignLoop(_, _, _, _, _)
CopyAssignLoop(c, sb, db, i, n) ==
    IF i >= n THEN c
    ELSE CopyAssignLoop(CopyAssignElem(c, sb, db, i, "assign"), sb, db, i + 1, n)

\* A shift that moves nothing: the variant of MoveForward that fails C14
MoveForwardNone(c, b, first, lst, dfirst) == c

\* std::move(first, last, d_first)
RECURSIVE MoveForward(_, _, _, _, _)
MoveForward(c, b, first, lst, dfirst) ==
    IF first >= lst THEN c
    ELSE MoveForward(MoveAssignElem(c, b, first, dfirst, "shift"), b, first + 1, lst, dfirst + 1)

\* std::move_backward(first, last, d_last)
RECURSIVE MoveBackward(_, _, _, _, _)
MoveBackward(c, b, first, lst, dlast) ==
    IF first >= lst THEN c
    ELSE MoveBackward(MoveAssignElem(c, b, lst - 1, dlast - 1, "shift"), b, first, lst - 1, dlast - 1)

\* The argument of a constructor call: a value of the caller's, or a
\* reference to the element at offset j of the buffer, read when the
\* constructor runs
Value(x) == [alias |-> FALSE, of |-> x]

ElementRef(j) == [alias |-> TRUE, of |-> j]

Deref(c, b, arg) == IF arg.alias THEN c.h[b].slots[arg.of + 1] ELSE arg.of

\* new (slot) T(std::forward<Args>(args)...): the constructor called with the
\* arguments may throw (PushBack and Insert pass one value to the same call)
ConstructAt(c, b, i, x, label) ==
    IF c.ex THEN c
    ELSE IF Hit(c, 1) THEN Throw(c, label)
    ELSE Pass([c EXCEPT !.h = PutRange(c.h, b, i, <<x>>)], 1)

\* *slot = T(std::forward<Args>(args)...): the temporary, then T::operator=(T&&)
AssignTemp(c, b, i, x) ==
    IF c.ex THEN c
    ELSE IF Hit(c, 1) THEN Throw(c, "new")
    ELSE LET c1 == Pass(c, 1)
         IN IF Hit(c1, MoveFallible) THEN Throw(c1, "assign")
            ELSE Pass([c1 EXCEPT !.h = PutRange(c1.h, b, i, <<x>>)], MoveFallible)

----------------------------------------------------------------------------
\* Vector<T>

NoVector == [alive |-> FALSE, data |-> EmptyRaw, size |-> 0]

\* Vector() = default
EmptyVector == [alive |-> TRUE, data |-> EmptyRaw, size |-> 0]

\* begin() .. end(): the values of the elements at offsets [0, size)
Contents(vr, h) == [j \in 1..vr.size |-> h[vr.data.buffer].slots[j]]

Caught(c) == [c EXCEPT !.ex = FALSE]

Rethrow(c) == [c EXCEPT !.ex = TRUE]

\* A growth that adds no room to a non-empty buffer: the variant of
\* GrownCapacity that fails C1
GrownCapacitySame(size) == IF size = 0 THEN 1 ELSE size

\* RawMemory<T> new_data(size_ == 0 ? 1 : size_ * 2)
GrownCapacity(size) == IF size = 0 THEN 1 ELSE size * 2

\* Vector::Swap
VecSwap(vr, wr) ==
    LET sw == RawSwap(vr.data, wr.data)
    IN <<[vr EXCEPT !.data = sw[1], !.size = wr.size],
         [wr EXCEPT !.data = sw[2], !.size = vr.size]>>

\* ~Vector, then ~RawMemory of data_
DestructRes(vr, c0) ==
    LET c1 == DestroyN(c0, vr.data.buffer, 0, vr.size)
    IN [vr |-> NoVector, c |-> Deallocate(c1, vr.data.buffer), path |-> "dtor"]

\* explicit Vector(size_t size)
SizedConstructRes(c0, n) ==
    LET nd == RawMemoryNew(c0, n)
        c1 == Allocate(c0, n)
        c2 == UninitValueConstructN(c1, nd.buffer, 0, n, "value")
    IN IF c2.ex THEN [vr |-> NoVector, c |-> Deallocate(c2, nd.buffer), path |-> "ctor"]
       ELSE [vr |-> [alive |-> TRUE, data |-> nd, size |-> n], c |-> c2, path |-> "ctor"]

\* Vector(const Vector& other)
CopyConstructRes(wr, c0) ==
    LET nd == RawMemoryNew(c0, wr.size)
        c1 == Allocate(c0, wr.size)
        c2 == UninitCopyN(c1, wr.data.buffer, 0, wr.size, nd.buffer, 0, "copy")
    IN IF c2.ex THEN [vr |-> NoVector, c |-> Deallocate(c2, nd.buffer), path |-> "ctor"]
       ELSE [vr |-> [alive |-> TRUE, data |-> nd, size |-> wr.size], c |-> c2, path |-> "ctor"]

\* Vector(Vector&& other) noexcept: <<the new vector, other>>
MoveConstructRes(wr) ==
    LET mv == RawMoveAssign(EmptyRaw, wr.data)
    IN <<[alive |-> TRUE, data |-> mv[1], size |-> wr.size],
         [wr EXCEPT !.data = mv[2], !.size = 0]>>

\* A move assignment that leaves rhs.size_ as it was: the variant of
\* MoveAssignRes that fails C8
MoveAssignKeepsSize(vr, wr) ==
    LET mv == RawMoveAssign(vr.data, wr.data)
    IN <<[vr EXCEPT !.data = mv[1], !.size = wr.size],
         [wr EXCEPT !.data = mv[2]]>>

\* Vector& operator=(Vector&& rhs) noexcept, this != &rhs: <<*this, rhs>>
MoveAssignRes(vr, wr) ==
    LET mv == RawMoveAssign(vr.data, wr.data)
    IN <<[vr EXCEPT !.data = mv[1], !.size = wr.size],
         [wr EXCEPT !.data = mv[2], !.size = 0]>>

\* A copy assignment that takes rhs's buffer pointer: the variant of
\* CopyAssignRes that fails C9
CopyAssignShallow(vr, wr, c0) ==
    [vr |-> [vr EXCEPT !.data = wr.data, !.size = wr.size], c |-> c0, path |-> "shallow"]

\* A copy assignment within capacity that sets size_ before it touches the
\* elements: the variant of CopyAssignRes that fails C17
CopyAssignSizeFirst(vr, wr, c0) ==
    IF wr.size > vr.data.capacity
    THEN LET cp == CopyConstructRes(wr, c0)
         IN IF cp.c.ex THEN [vr |-> vr, c |-> cp.c, path |-> "copy-swap"]
            ELSE LET sw == VecSwap(vr, cp.vr)
                 IN [vr |-> sw[1], c |-> DestructRes(sw[2], cp.c).c, path |-> "copy-swap"]
    ELSE IF vr.size > wr.size
    THEN LET c1 == CopyAssignLoop(c0, wr.data.buffer, vr.data.buffer, 0, wr.size)
             c2 == DestroyN(c1, vr.data.buffer, wr.size, vr.size - wr.size)
         IN [vr |-> [vr EXCEPT !.size = wr.size], c |-> c2, path |-> "shrink"]
    ELSE LET c1 == CopyAssignLoop(c0, wr.data.buffer, vr.data.buffer, 0, vr.size)
             c2 == UninitCopyN(c1, wr.data.buffer, vr.size, wr.size - vr.size,
                               vr.data.buffer, vr.size, "copy")
         IN [vr |-> [vr EXCEPT !.size = wr.size], c |-> c2, path |-> "grow"]

\* Vector& operator=(const Vector& rhs), this != &rhs
CopyAssignRes(vr, wr, c0) ==
    IF wr.size > vr.data.capacity
    THEN LET cp == CopyConstructRes(wr, c0)
         IN IF cp.c.ex THEN [vr |-> vr, c |-> cp.c, path |-> "copy-swap"]
            ELSE LET sw == VecSwap(vr, cp.vr)
                 IN [vr |-> sw[1], c |-> DestructRes(sw[2], cp.c).c, path |-> "copy-swap"]
    ELSE IF vr.size > wr.size
    THEN LET c1 == CopyAssignLoop(c0, wr.data.buffer, vr.data.buffer, 0, wr.size)
             c2 == DestroyN(c1, vr.data.buffer, wr.size, vr.size - wr.size)
         IN [vr |-> IF c2.ex THEN vr ELSE [vr EXCEPT !.size = wr.size],
             c |-> c2, path |-> "shrink"]
    ELSE LET c1 == CopyAssignLoop(c0, wr.data.buffer, vr.data.buffer, 0, vr.size)
             c2 == UninitCopyN(c1, wr.data.buffer, vr.size, wr.size - vr.size,
                               vr.data.buffer, vr.size, "copy")
         IN [vr |-> IF c2.ex THEN vr ELSE [vr EXCEPT !.size = wr.size],
             c |-> c2, path |-> "grow"]

\* A Reserve that destroys the elements before it allocates: the variant of
\* ReserveRes that fails C16
ReserveClearsFirst(vr, c0, n) ==
    IF n <= vr.data.capacity THEN [vr |-> vr, c |-> c0, path |-> "noop"]
    ELSE LET c1 == DestroyN(c0, vr.data.buffer, 0, vr.size)
             nd == RawMemoryNew(c1, n)
             c2 == Allocate(c1, n)
         IN IF c2.ex THEN [vr |-> [vr EXCEPT !.size = 0], c |-> c2, path |-> "realloc"]
            ELSE [vr |-> [vr EXCEPT !.data = nd, !.size = 0],
                  c |-> Deallocate(c2, vr.data.buffer), path |-> "realloc"]

\* Vector::Reserve
ReserveRes(vr, c0, n) ==
    IF n <= vr.data.capacity THEN [vr |-> vr, c |-> c0, path |-> "noop"]
    ELSE LET nd == RawMemoryNew(c0, n)
             c1 == Allocate(c0, n)
             c2 == Relocate(c1, vr.data.buffer, 0, vr.size, nd.buffer, 0, "relocate")
             c3 == DestroyN(c2, vr.data.buffer, 0, vr.size)
             sw == RawSwap(vr.data, nd)
         IN IF c3.ex THEN [vr |-> vr, c |-> Deallocate(c3, nd.buffer), path |-> "realloc"]
            ELSE [vr |-> [vr EXCEPT !.data = sw[1]],
                  c |-> Deallocate(c3, sw[2].buffer), path |-> "realloc"]

\* A Resize that shrinks without destroying the tail: the variant of
\* ResizeRes that fails C18
ResizeKeepsTail(vr, c0, n) ==
    IF n < vr.size
    THEN [vr |-> [vr EXCEPT !.size = n], c |-> c0, path |-> "shrink"]
    ELSE IF n > vr.size
    THEN LET r == ReserveRes(vr, c0, n)
             c2 == UninitValueConstructN(r.c, r.vr.data.buffer, vr.size, n - vr.size, "value")
         IN [vr |-> IF c2.ex THEN r.vr ELSE [r.vr EXCEPT !.size = n],
             c |-> c2, path |-> IF r.path = "realloc" THEN "realloc" ELSE "grow"]
    ELSE [vr |-> vr, c |-> c0, path |-> "noop"]

\* Vector::Resize
ResizeRes(vr, c0, n) ==
    IF n < vr.size
    THEN [vr |-> [vr EXCEPT !.size = n],
          c |-> DestroyN(c0, vr.data.buffer, n, vr.size - n), path |-> "shrink"]
    ELSE IF n > vr.size
    THEN LET r == ReserveRes(vr, c0, n)
             c2 == UninitValueConstructN(r.c, r.vr.data.buffer, vr.size, n - vr.size, "value")
         IN [vr |-> IF c2.ex THEN r.vr ELSE [r.vr EXCEPT !.size = n],
             c |-> c2, path |-> IF r.path = "realloc" THEN "realloc" ELSE "grow"]
    ELSE [vr |-> vr, c |-> c0, path |-> "noop"]

\* Vector::EmplaceBack
EmplaceBackRes(vr, c0, arg) ==
    IF vr.size = vr.data.capacity
    THEN LET n == GrownCapacity(vr.size)
             nd == RawMemoryNew(c0, n)
             c1 == Allocate(c0, n)
             c2 == ConstructAt(c1, nd.buffer, vr.size, Deref(c1, vr.data.buffer, arg), "new")
             c3 == Relocate(c2, vr.data.buffer, 0, vr.size, nd.buffer, 0, "relocate")
             c4 == DestroyN(c3, vr.data.buffer, 0, vr.size)
             sw == RawSwap(vr.data, nd)
         IN IF c4.ex THEN [vr |-> vr, c |-> Deallocate(c4, nd.buffer), path |-> "realloc"]
            ELSE [vr |-> [vr EXCEPT !.data = sw[1], !.size = @ + 1],
                  c |-> Deallocate(c4, sw[2].buffer), path |-> "realloc"]
    ELSE LET c1 == ConstructAt(c0, vr.data.buffer, vr.size,
                               Deref(c0, vr.data.buffer, arg), "new")
         IN [vr |-> IF c1.ex THEN vr ELSE [vr EXCEPT !.size = @ + 1],
             c |-> c1, path |-> "incap"]

\* A PopBack that destroys the last element and keeps size_: the variant of
\* PopBackRes that fails C3
PopBackKeepsSize(vr, c0) ==
    [vr |-> vr, c |-> DestroyN(c0, vr.data.buffer, vr.size - 1, 1), path |-> "incap"]

\* Vector::PopBack: --size_ in size_t, then std::destroy_at(end())
PopBackRes(vr, c0) ==
    LET n == (vr.size - 1) % (2 ^ SizeBits)
    IN [vr |-> [vr EXCEPT !.size = n],
        c |-> DestroyAt(c0, vr.data.buffer, n), path |-> "incap"]

\* An Erase that drops the last element instead of the one at pos: the
\* variant of EraseRes that fails C10
EraseLast(vr, c0, off) ==
    [vr |-> [vr EXCEPT !.size = @ - 1],
     c |-> DestroyN(c0, vr.data.buffer, vr.size - 1, 1), path |-> "incap", ret |-> off]

\* Vector::Erase, pos = begin() + off
EraseRes(vr, c0, off) ==
    LET c1 == MoveForward(c0, vr.data.buffer, off + 1, vr.size, off)
        c2 == DestroyN(c1, vr.data.buffer, vr.size - 1, 1)
    IN [vr |-> IF c2.ex THEN vr ELSE [vr EXCEPT !.size = @ - 1],
        c |-> c2, path |-> "incap", ret |-> off]

\* Vector::Emplace, the branch new_size <= Capacity()
EmplaceInPlace(vr, c0, off, arg) ==
    LET b == vr.data.buffer
        c1 == MoveConstructElem(c0, b, vr.size - 1, vr.size, "last")
        c2 == MoveBackward(c1, b, off, vr.size - 1, vr.size)
        c3 == AssignTemp(c2, b, off, Deref(c2, b, arg))
    IN [vr |-> IF c3.ex THEN vr ELSE [vr EXCEPT !.size = @ + 1],
        c |-> c3, path |-> "shift"]

\* Vector::Emplace, the branch that reallocates, with its two catch blocks
EmplaceRealloc(vr, c0, off, arg) ==
    LET b == vr.data.buffer
        n == GrownCapacity(vr.size)
        nd == RawMemoryNew(c0, n)
        c1 == Allocate(c0, n)
        c2 == ConstructAt(c1, nd.buffer, off, Deref(c1, b, arg), "new")
        c3 == Relocate(c2, b, 0, off, nd.buffer, 0, "prefix")
        c3h == IF c3.ex /\ ~c2.ex
               THEN Rethrow(DestroyN(Caught(c3), nd.buffer, off, 1))
               ELSE c3
        c4 == Relocate(c3h, b, off, vr.size - off, nd.buffer, off + 1, "suffix")
        c4h == IF c4.ex /\ ~c3h.ex
               THEN Rethrow(DestroyN(Caught(c4), nd.buffer, 0, off))
               ELSE c4
        c5 == DestroyN(c4h, b, 0, vr.size)
        sw == RawSwap(vr.data, nd)
    IN IF c5.ex THEN [vr |-> vr, c |-> Deallocate(c5, nd.buffer), path |-> "realloc"]
       ELSE [vr |-> [vr EXCEPT !.data = sw[1], !.size = @ + 1],
             c |-> Deallocate(c5, sw[2].buffer), path |-> "realloc"]

\* A result with the offset of the position the call returns
Returning(r, off) == [vr |-> r.vr, c |-> r.c, path |-> r.path, ret |-> off]

\* An Emplace that puts the element at end(): the variant of EmplaceRes that
\* fails C13
EmplaceAtEnd(vr, c0, off, arg) == Returning(EmplaceBackRes(vr, c0, arg), off)

\* Vector::Emplace, pos = begin() + off; return begin() + new_item_offset
EmplaceRes(vr, c0, off, arg) ==
    IF off = vr.size THEN Returning(EmplaceBackRes(vr, c0, arg), off)
    ELSE IF vr.size + 1 <= vr.data.capacity THEN Returning(EmplaceInPlace(vr, c0, off, arg), off)
    ELSE Returning(EmplaceRealloc(vr, c0, off, arg), off)

\* v[i] = x through operator[]: T::operator=(const T&) or T::operator=(T&&) by the caller
WriteRes(vr, c0, i, arg) ==
    LET c1 == IF Hit(c0, 1) THEN Throw(c0, "assign")
              ELSE Pass([c0 EXCEPT !.h = PutRange(c0.h, vr.data.buffer, i, <<arg>>)], 1)
    IN [vr |-> vr, c |-> c1, path |-> "incap"]

\* it = v.Insert(v.begin() + off, x); v.Erase(it): the two calls back to back
InsertEraseRes(vr, c0, off, arg) ==
    LET r1 == EmplaceRes(vr, c0, off, arg)
        r2 == EraseRes(r1.vr, r1.c, off)
    IN IF r1.c.ex THEN r1 ELSE [vr |-> r2.vr, c |-> r2.c, path |-> r1.path, ret |-> r2.ret]

----------------------------------------------------------------------------
\* The calls a program makes on its Vector objects

\* The record of a call: the function, its objects, the arguments of a call
\* that returned (arg: a size, a capacity or the offset of pos; val: the value
\* of the element) and the offset of the position it returned, the branch it took, whether it threw and where, the live
\* objects in the blocks it deallocated, and the elements the object held
\* before (InsertErase).
Called(op, v, w, arg, val, r, before) ==
    [op |-> op, v |-> v, w |-> w,
     arg |-> IF r.c.ex THEN 0 ELSE arg, val |-> IF r.c.ex THEN 0 ELSE val,
     ret |-> IF ~r.c.ex /\ "ret" \in DOMAIN r THEN r.ret ELSE 0,
     path |-> r.path,
     ex |-> r.c.ex, at |-> r.c.at, lost |-> r.c.lost, ub |-> r.c.ub,
     moved |-> r.c.moved, copied |-> r.c.copied, before |-> before]

\* No call is recorded: the program is between two calls
NoCall ==
    [op |-> "none", v |-> "a", w |-> "a", arg |-> 0, val |-> 0, ret |-> 0, path |-> "none",
     ex |-> FALSE, at |-> "none", lost |-> 0, ub |-> FALSE,
     moved |-> FALSE, copied |-> FALSE, before |-> <<>>]

\* A fail point beyond the call's fallible operations is the call with none
Reached(f, r) == f = 0 \/ r.c.ex

\* The blocks that no object refers to any more
Leaked == {b \in Blocks : heap[b].alloc /\ \A v \in Vecs : vec[v].data.buffer /= b}

\* The program makes its next call once it has seen the last one return;
\* past a leaked block the model follows only the destruction of the objects.
Ready == last.op = "none"

Live(v) == Ready /\ Leaked = {} /\ vec[v].alive

Unborn(v) == Ready /\ Leaked = {} /\ ~vec[v].alive

\* One call on vec[v] ends: the object, the heap and the record of the call
Commit(op, v, arg, val, f, r, before) ==
    /\ Reached(f, r)
    /\ vec' = [vec EXCEPT ![v] = r.vr]
    /\ heap' = r.c.h
    /\ last' = Called(op, v, v, arg, val, r, before)
    /\ UNCHANGED <<traits, limit>>

\* A call on two objects ends
Commit2(op, v, w, f, pair, c, path) ==
    /\ Reached(f, [c |-> c])
    /\ vec' = [vec EXCEPT ![v] = pair[1], ![w] = pair[2]]
    /\ heap' = c.h
    /\ last' = Called(op, v, w, 0, 0, [c |-> c, path |-> path], <<>>)
    /\ UNCHANGED <<traits, limit>>

\* The model holds capacities up to limit, in the blocks there are
CanGrow(n) == n <= limit /\ HasFree(heap)

CanEmplace(vr) == vr.size < vr.data.capacity \/ CanGrow(GrownCapacity(vr.size))

DefaultConstruct(v) ==
    /\ Unborn(v)
    /\ Commit("Vector()", v, 0, 0, 0, [vr |-> EmptyVector, c |-> Ctx(heap, 0), path |-> "ctor"], <<>>)
    /\ UNCHANGED stack

SizedConstruct(v, n, f) ==
    /\ Unborn(v) /\ (n = 0 \/ CanGrow(n))
    /\ Commit("Vector(n)", v, 0, 0, f, SizedConstructRes(Ctx(heap, f), n), <<>>)
    /\ UNCHANGED stack

CopyConstruct(v, w, f) ==
    /\ Unborn(v) /\ Live(w) /\ traits.copyable
    /\ vec[w].size = 0 \/ HasFree(heap)
    /\ LET r == CopyConstructRes(vec[w], Ctx(heap, f))
       IN Commit2("Vector(copy)", v, w, f, <<r.vr, vec[w]>>, r.c, r.path)
    /\ UNCHANGED stack

MoveConstruct(v, w) ==
    /\ Unborn(v) /\ Live(w)
    /\ Commit2("Vector(move)", v, w, 0, MoveConstructRes(vec[w]), Ctx(heap, 0), "ctor")
    /\ UNCHANGED stack

Destruct(v) ==
    /\ Ready /\ vec[v].alive
    /\ Commit("~Vector", v, 0, 0, 0, DestructRes(vec[v], Ctx(heap, 0)), <<>>)
    /\ UNCHANGED stack

\* a = b; if (this != &rhs)
CopyAssign(v, w, f) ==
    /\ Live(v) /\ Live(w) /\ traits.copyable
    /\ vec[w].size <= vec[v].data.capacity \/ HasFree(heap)
    /\ IF v = w
       THEN Commit2("CopyAssign", v, w, f, <<vec[v], vec[v]>>, Ctx(heap, 0), "self")
       ELSE LET r == CopyAssignRes(vec[v], vec[w], Ctx(heap, f))
            IN Commit2("CopyAssign", v, w, f, <<r.vr, vec[w]>>, r.c, r.path)
    /\ UNCHANGED stack

\* a = std::move(b); if (this != &rhs)
MoveAssign(v, w) ==
    /\ Live(v) /\ Live(w)
    /\ IF v = w
       THEN Commit2("MoveAssign", v, w, 0, <<vec[v], vec[v]>>, Ctx(heap, 0), "self")
       ELSE Commit2("MoveAssign", v, w, 0, MoveAssignRes(vec[v], vec[w]), Ctx(heap, 0), "move")
    /\ UNCHANGED stack

Swap(v, w) ==
    /\ Live(v) /\ Live(w) /\ v /= w
    /\ Commit2("Swap", v, w, 0, VecSwap(vec[v], vec[w]), Ctx(heap, 0), "swap")
    /\ UNCHANGED stack

Reserve(v, n, f) ==
    /\ Live(v) /\ (n <= vec[v].data.capacity \/ CanGrow(n))
    /\ Commit("Reserve", v, n, 0, f, ReserveRes(vec[v], Ctx(heap, f), n), <<>>)
    /\ UNCHANGED stack

Resize(v, n, f) ==
    /\ Live(v) /\ (n <= vec[v].data.capacity \/ CanGrow(n))
    /\ Commit("Resize", v, n, 0, f, ResizeRes(vec[v], Ctx(heap, f), n), <<>>)
    /\ UNCHANGED stack

\* EmplaceBack(args...), PushBack(const T&), PushBack(T&&)
PushBackCall(v, arg, f) ==
    /\ Live(v) /\ CanEmplace(vec[v])
    /\ Commit("EmplaceBack", v, vec[v].size, arg, f, EmplaceBackRes(vec[v], Ctx(heap, f), Value(arg)), <<>>)

EmplaceBack(v, arg, f) == PushBackCall(v, arg, f) /\ UNCHANGED stack

\* PopBack(), called with size_ != 0
PopBackCall(v) ==
    /\ Live(v) /\ vec[v].size /= 0
    /\ Commit("PopBack", v, 0, 0, 0, PopBackRes(vec[v], Ctx(heap, 0)), <<>>)

PopBack(v) == PopBackCall(v) /\ UNCHANGED stack

\* PopBack() called with size_ == 0: what destroy_at does at the address it is
\* given is undefined; the call returns or the process dies in it
PopBackEmpty(v, dies) ==
    /\ Live(v) /\ vec[v].size = 0
    /\ LET r == PopBackRes(vec[v], Ctx(heap, 0))
       IN Commit("PopBack", v, 0, 0, 0,
                 [vr |-> r.vr, c |-> r.c, path |-> IF dies THEN "died" ELSE r.path], <<>>)
    /\ UNCHANGED stack

\* Erase(begin() + off), called with begin() <= pos < end()
Erase(v, off, f) ==
    /\ Live(v) /\ off < vec[v].size
    /\ Commit("Erase", v, off, 0, f, EraseRes(vec[v], Ctx(heap, f), off), <<>>)
    /\ UNCHANGED stack

\* Emplace(begin() + off, args...), Insert(pos, const T&), Insert(pos, T&&),
\* called with begin() <= pos <= end()
Emplace(v, off, arg, f) ==
    /\ Live(v) /\ off <= vec[v].size /\ CanEmplace(vec[v])
    /\ Commit("Emplace", v, off, arg, f, EmplaceRes(vec[v], Ctx(heap, f), off, Value(arg)), <<>>)
    /\ UNCHANGED stack

\* Insert at begin() + off, then Erase of the position Insert returned, neither
\* of which throws (a call that throws is a run of Emplace or of Erase)
InsertErase(v, off, arg) ==
    /\ Live(v) /\ off <= vec[v].size /\ CanEmplace(vec[v])
    /\ Commit("InsertErase", v, off, arg, 0, InsertEraseRes(vec[v], Ctx(heap, 0), off, Value(arg)),
              Contents(vec[v], heap))
    /\ UNCHANGED stack

\* Insert(begin() + off, v[j]) and, at off = size_, PushBack(v[j]): the value
\* is a reference to an element of the same Vector; the record of the call
\* keeps the value v[j] had when the call was made
InsertAlias(v, off, j) ==
    /\ Live(v) /\ traits.copyable
    /\ off <= vec[v].size /\ j < vec[v].size /\ CanEmplace(vec[v])
    /\ Commit("InsertAlias", v, off, Contents(vec[v], heap)[j + 1], 0,
              EmplaceRes(vec[v], Ctx(heap, 0), off, ElementRef(j)), <<>>)
    /\ UNCHANGED stack

\* v[i] = x, called with i < size_
Write(v, i, arg, f) ==
    /\ Live(v) /\ i < vec[v].size
    /\ Commit("Write", v, i, arg, f, WriteRes(vec[v], Ctx(heap, f), i, arg), <<>>)
    /\ UNCHANGED stack

\* The caller has seen the call return; past undefined behaviour the model
\* follows the program no further
Continue ==
    /\ ~Ready /\ ~last.ub
    /\ last' = NoCall
    /\ UNCHANGED <<traits, vec, heap, stack, limit>>

\* The element types: whether T(T&&) and T::operator=(T&&) are noexcept, and
\* whether T can be copied
Types == [nothrowMove : BOOLEAN, copyable : BOOLEAN]

Start(vs, lim, types) ==
    /\ traits \in types
    /\ vec = [v \in Vecs |-> IF v \in vs THEN EmptyVector ELSE NoVector]
    /\ heap = [b \in Blocks |-> FreeBlock]
    /\ last = NoCall
    /\ stack = <<>>
    /\ limit = lim

\* The fail points of F that a call with at most k fallible operations can reach
Upto(F, k) == {f \in F : f <= k}

\* The fail points of a call whose element operations may throw, or may not;
\* its allocation may throw in both
Fails(throwing, k) == IF throwing THEN Upto(FailPoints, k) ELSE {AllocFails, 0}

\* The calls on one object, with element operations that may throw or not
Calls(v, throwing) ==
    \/ DefaultConstruct(v)
    \/ \E n \in 0..limit : \E f \in Fails(throwing, n) : SizedConstruct(v, n, f)
    \/ Destruct(v)
    \/ \E n \in 0..limit : \E f \in Fails(throwing, vec[v].size) : Reserve(v, n, f)
    \/ \E n \in 0..limit : \E f \in Fails(throwing, n) : Resize(v, n, f)
    \/ \E arg \in Values : \E f \in Fails(throwing, vec[v].size + 1) : EmplaceBack(v, arg, f)
    \/ PopBack(v)
    \/ \E off \in 0..limit : \E f \in Fails(throwing, vec[v].size) : Erase(v, off, f)
    \/ \E off \in 0..limit, arg \in Values : \E f \in Fails(throwing, vec[v].size + 2) :
           Emplace(v, off, arg, f)

\* The calls of a program with two objects: those that take both, and the
\* writes through operator[] that tell the elements of the two apart
PairCalls(v, w) ==
    \/ \E f \in FailPoints : CopyConstruct(v, w, f)
    \/ MoveConstruct(v, w)
    \/ \E f \in FailPoints : CopyAssign(v, w, f)
    \/ MoveAssign(v, w)
    \/ Swap(v, w)
    \/ \E i \in 0..limit, arg \in Values : v = w /\ Write(v, i, arg, 0)

\* One Vector of any element type, capacities up to MaxCap
Init == Start({"a"}, MaxCap, Types)

Next == Calls("a", TRUE) \/ Continue

Spec == Init /\ [][Next]_vars

\* Two Vectors of a copyable element type, capacities up to MaxCapPair; the
\* element operations throw in the calls that take both objects
InitPair == Start(Vecs, MaxCapPair, {t \in Types : t.copyable})

NextPair ==
    \/ \E v \in Vecs : Calls(v, FALSE)
    \/ \E v, w \in Vecs : PairCalls(v, w)
    \/ Continue

SpecPair == InitPair /\ [][NextPair]_vars

\* Two Vectors, every call and every fail point
NextAll ==
    \/ \E v \in Vecs : Calls(v, TRUE)
    \/ \E v, w \in Vecs : PairCalls(v, w)
    \/ Continue

SpecAll == InitPair /\ [][NextAll]_vars

\* One Vector driven by PushBack and PopBack only, beside a reference stack;
\* a PushBack whose element constructor throws pushes nothing
StackPush(arg, f) ==
    /\ PushBackCall("a", arg, f)
    /\ stack' = IF last'.ex THEN stack ELSE Append(stack, arg)

StackPop ==
    /\ PopBackCall("a")
    /\ stack' = SubSeq(stack, 1, Len(stack) - 1)

NextStack ==
    \/ \E arg \in Values : \E f \in Upto(FailPoints, 1) : StackPush(arg, f)
    \/ StackPop
    \/ Continue

SpecStack == Init /\ [][NextStack]_vars

\* One Vector of the element type that is relocated by copy: T can be copied
\* and its move constructor may throw
InitCopied == Start({"a"}, MaxCap, {t \in Types : t.copyable /\ ~t.nothrowMove})

SpecCopied == InitCopied /\ [][Next]_vars

\* One Vector of any element type whose element operations never throw,
\* with Insert and Erase back to back
NextNoThrow ==
    \/ Calls("a", FALSE)
    \/ \E off \in 0..limit, arg \in Values : InsertErase("a", off, arg)
    \/ Continue

SpecNoThrow == Init /\ [][NextNoThrow]_vars

\* One Vector whose caller also pops it when it is empty
NextUnchecked ==
    \/ Calls("a", FALSE)
    \/ \E dies \in BOOLEAN : PopBackEmpty("a", dies)
    \/ Continue

SpecUnchecked == Init /\ [][NextUnchecked]_vars

\* One Vector whose caller also inserts its own elements by reference
NextAlias ==
    \/ Calls("a", FALSE)
    \/ \E off \in 0..limit, j \in 0..limit : InsertAlias("a", off, j)
    \/ Continue

SpecAlias == Init /\ [][NextAlias]_vars

----------------------------------------------------------------------------
\* Properties

\* The offsets (from 1) of the slots of vr's buffer that hold a live object
LiveSlots(vr, h) ==
    IF vr.data.buffer = Null THEN {}
    ELSE {j \in DOMAIN h[vr.data.buffer].slots : h[vr.data.buffer].slots[j] /= Raw}

\* C1: after every call, the ones that throw included, every Vector has
\* 0 <= size <= capacity.
SizeWithinCapacity ==
    \A v \in Vecs : 0 <= vec[v].size /\ vec[v].size <= vec[v].data.capacity

\* A full, non-empty Vector whose growing EmplaceBack has just thrown
SizeWithinCapacityWitness ==
    /\ last.op = "EmplaceBack" /\ last.ex /\ last.path = "realloc"
    /\ vec[last.v].size > 0
    /\ vec[last.v].size = vec[last.v].data.capacity

\* C2: at the exit of every call, the ones that throw included, the live
\* slots of a Vector's buffer are exactly the offsets [0, size).
LiveSlotsAreFront ==
    \A v \in Vecs : vec[v].alive => LiveSlots(vec[v], heap) = 1..vec[v].size

\* An Emplace that shifted in place and threw: the slot at offset size is live
LiveSlotBeyondSize ==
    /\ last.op = "Emplace" /\ last.ex /\ last.path = "shift"
    /\ (vec[last.v].size + 1) \in LiveSlots(vec[last.v], heap)

\* C3: after every sequence of PushBack and PopBack on an empty Vector, size
\* is the number of pushes less the number of pops and the elements are those
\* of the reference stack, bottom first.
MatchesReferenceStack ==
    /\ vec["a"].size = Len(stack)
    /\ Contents(vec["a"], heap) = stack

\* Three pushes, the second and third of which reallocated, then a pop
MatchesReferenceStackWitness ==
    /\ last.op = "PopBack"
    /\ stack = <<1, 0>>
    /\ vec["a"].data.capacity = 4

\* The element type that is relocated by copy
RelocatedByCopy == traits.copyable /\ ~traits.nothrowMove

\* C4: for an element type relocated by copy, a Reserve, EmplaceBack or
\* Emplace that reallocates and throws leaves size, capacity and every
\* element as they were before the call.
StrongGuaranteeOnGrowth ==
    [][(/\ RelocatedByCopy
        /\ last'.op \in {"Reserve", "EmplaceBack", "Emplace"}
        /\ last'.path = "realloc"
        /\ last'.ex)
       => (/\ vec'[last'.v].size = vec[last'.v].size
           /\ vec'[last'.v].data.capacity = vec[last'.v].data.capacity
           /\ Contents(vec'[last'.v], heap') = Contents(vec[last'.v], heap))]_vars

\* A growing Emplace in the middle whose suffix copy has just thrown
StrongGuaranteeOnGrowthWitness ==
    /\ RelocatedByCopy
    /\ last.op = "Emplace" /\ last.ex /\ last.path = "realloc" /\ last.at = "suffix"
    /\ Contents(vec[last.v], heap) = <<0, 1>>

\* C5: when a growing Emplace or EmplaceBack throws in a transfer stage, the
\* new buffer is released holding no live object.
GrowthRollbackComplete ==
    (/\ last.op \in {"Emplace", "EmplaceBack"}
     /\ last.path = "realloc"
     /\ last.ex
     /\ last.at \in {"relocate", "prefix", "suffix"})
    => last.lost = 0

\* A growing Emplace at begin() whose suffix transfer threw, the new buffer
\* released with the new element in it
NewElementLost ==
    /\ last.op = "Emplace" /\ last.ex /\ last.path = "realloc" /\ last.at = "suffix"
    /\ last.lost = 1

\* C6: in Emplace within capacity, if the new value's constructor throws,
\* the Vector and its buffer are as they were before the call.
NewValueBuiltBeforeShift ==
    [][(/\ last'.op = "Emplace"
        /\ last'.path = "shift"
        /\ last'.ex
        /\ last'.at = "new")
       => (vec' = vec /\ heap' = heap)]_vars

\* An Emplace within capacity whose new value's constructor threw after the
\* last element was moved out
ShiftedBeforeNewValue ==
    /\ last.op = "Emplace" /\ last.ex /\ last.path = "shift" /\ last.at = "new"
    /\ heap[vec[last.v].data.buffer].slots[vec[last.v].size] = MovedFrom

\* C7: once every Vector is destroyed, a move assignment between two of them
\* having released the target's elements and block, no block is allocated.
AllReleasedAtEnd ==
    (\A v \in Vecs : ~vec[v].alive) => (\A b \in Blocks : ~heap[b].alloc)

\* Both Vectors destroyed and a block still allocated, live objects in it
BlockOutlivesVectors ==
    /\ \A v \in Vecs : ~vec[v].alive
    /\ \E b \in Blocks : heap[b].alloc /\ LiveCount(heap[b].slots) > 0

\* C8: a = std::move(b) leaves b with size 0 and capacity 0 and a with b's
\* elements, in order, and b's capacity; a = std::move(a) changes nothing.
MoveAssignTransfers ==
    [][last'.op = "MoveAssign"
       => IF last'.v = last'.w
          THEN vec' = vec /\ heap' = heap
          ELSE /\ vec'[last'.w].size = 0
               /\ vec'[last'.w].data.capacity = 0
               /\ vec'[last'.v].size = vec[last'.w].size
               /\ vec'[last'.v].data.capacity = vec[last'.w].data.capacity
               /\ Contents(vec'[last'.v], heap') = Contents(vec[last'.w], heap)]_vars

\* A move assignment from a Vector that held two different elements
MoveAssignTransfersWitness ==
    /\ last.op = "MoveAssign" /\ last.path = "move"
    /\ Contents(vec[last.v], heap) = <<0, 1>>
    /\ vec[last.w].size = 0

\* C9: a = b that returns leaves a with b's size and elements, b unchanged and
\* the two on different blocks; a call on one Vector alone leaves the size
\* and the elements of the other unchanged.
CopyAssignIsDeep ==
    [][/\ (last'.op = "CopyAssign" /\ ~last'.ex /\ last'.v /= last'.w)
          => /\ vec'[last'.v].size = vec[last'.w].size
             /\ Contents(vec'[last'.v], heap') = Contents(vec[last'.w], heap)
             /\ vec'[last'.w] = vec[last'.w]
             /\ Contents(vec'[last'.w], heap') = Contents(vec[last'.w], heap)
             /\ \/ vec'[last'.v].data.buffer = Null
                \/ vec'[last'.v].data.buffer /= vec'[last'.w].data.buffer
       /\ (last'.op /= "none" /\ last'.v = last'.w)
          => \A u \in Vecs \ {last'.v} :
                 /\ vec'[u].size = vec[u].size
                 /\ Contents(vec'[u], heap') = Contents(vec[u], heap)]_vars

\* A copy assignment within capacity that assigned one element and constructed one
CopyAssignIsDeepWitness ==
    /\ last.op = "CopyAssign" /\ ~last.ex /\ last.path = "grow"
    /\ Contents(vec[last.v], heap) = <<0, 1>>
    /\ Contents(vec[last.w], heap) = <<0, 1>>
    /\ vec[last.v].data.buffer /= vec[last.w].data.buffer

\* C10: Insert at an offset and then Erase at the same offset leaves size and
\* the elements, in order, as they were before the Insert.
InsertThenEraseRestores ==
    (last.op = "InsertErase" /\ ~last.ex)
    => /\ vec[last.v].size = Len(last.before)
       /\ Contents(vec[last.v], heap) = last.before

\* An Insert in the middle that reallocated, then the Erase
InsertThenEraseRestoresWitness ==
    /\ last.op = "InsertErase" /\ ~last.ex /\ last.path = "realloc"
    /\ last.arg = 1
    /\ last.before = <<0, 1>>

\* The larger of two numbers
Max(x, y) == IF x >= y THEN x ELSE y

\* C11: a Reserve(n) that returns leaves capacity = max(old capacity, n) and
\* size and the elements, in order, unchanged; with n <= old capacity it
\* changes nothing, the buffer included.
ReserveSetsCapacity ==
    [][(last'.op = "Reserve" /\ ~last'.ex)
       => /\ vec'[last'.v].data.capacity = Max(vec[last'.v].data.capacity, last'.arg)
          /\ vec'[last'.v].size = vec[last'.v].size
          /\ Contents(vec'[last'.v], heap') = Contents(vec[last'.v], heap)
          /\ (last'.arg <= vec[last'.v].data.capacity) => (vec' = vec /\ heap' = heap)]_vars

\* A Reserve(3) that moved two different elements out of a buffer of two
ReserveSetsCapacityWitness ==
    /\ last.op = "Reserve" /\ ~last.ex /\ last.path = "realloc"
    /\ last.arg = 3
    /\ vec[last.v].data.capacity = 3
    /\ Contents(vec[last.v], heap) = <<0, 1>>

\* C12: every relocation of elements into new storage (Reserve, EmplaceBack,
\* the prefix and the suffix stage of Emplace) move-constructs them if and
\* only if T's move constructor does not throw or T cannot be copied, and
\* copy-constructs them otherwise.
UniformRelocation ==
    /\ last.moved => (traits.nothrowMove \/ ~traits.copyable)
    /\ last.copied => ~(traits.nothrowMove \/ ~traits.copyable)
    /\ (/\ last.op \in {"Reserve", "EmplaceBack", "Emplace"}
        /\ last.path = "realloc" /\ ~last.ex /\ vec[last.v].size > 1)
       => (last.moved \/ last.copied)

\* An Emplace that reallocated and copied a prefix and a suffix
UniformRelocationWitness ==
    /\ last.op = "Emplace" /\ ~last.ex /\ last.path = "realloc"
    /\ last.arg = 1 /\ vec[last.v].size = 3
    /\ last.copied /\ ~last.moved

\* The sequence s with x put in at offset k
InsertAt(s, k, x) == SubSeq(s, 1, k) \o <<x>> \o SubSeq(s, k + 1, Len(s))

\* C13: an Emplace/Insert at offset k that returns leaves old[0..k), the new
\* element, old[k..size), size + 1, and returns offset k; capacity is
\* unchanged when size < capacity and max(1, 2 * size) otherwise; EmplaceBack
\* is Emplace at end.
EmplaceInsertsAtPos ==
    [][(last'.op \in {"Emplace", "EmplaceBack"} /\ ~last'.ex)
       => /\ vec'[last'.v].size = vec[last'.v].size + 1
          /\ Contents(vec'[last'.v], heap')
               = InsertAt(Contents(vec[last'.v], heap), last'.arg, last'.val)
          /\ (last'.op = "Emplace") => (last'.ret = last'.arg)
          /\ (last'.op = "EmplaceBack") => (last'.arg = vec[last'.v].size)
          /\ vec'[last'.v].data.capacity
               = IF vec[last'.v].size < vec[last'.v].data.capacity
                 THEN vec[last'.v].data.capacity
                 ELSE Max(1, 2 * vec[last'.v].size)]_vars

\* An Emplace in the middle that shifted one element in place
EmplaceInsertsAtPosWitness ==
    /\ last.op = "Emplace" /\ ~last.ex /\ last.path = "shift"
    /\ last.arg = 1 /\ last.val = 1 /\ last.ret = 1
    /\ Contents(vec[last.v], heap) = <<0, 1, 0>>

\* The sequence s without the element at offset k
RemoveAt(s, k) == SubSeq(s, 1, k) \o SubSeq(s, k + 2, Len(s))

\* C14: an Erase at offset k that returns leaves old[0..k), old[k+1..size)
\* and size - 1; only the old last slot is destroyed, capacity and the block
\* are those before the call, and the call returns offset k.
EraseRemovesAtPos ==
    [][(last'.op = "Erase" /\ ~last'.ex)
       => /\ vec'[last'.v].size = vec[last'.v].size - 1
          /\ Contents(vec'[last'.v], heap') = RemoveAt(Contents(vec[last'.v], heap), last'.arg)
          /\ vec'[last'.v].data = vec[last'.v].data
          /\ LiveSlots(vec'[last'.v], heap') = LiveSlots(vec[last'.v], heap) \ {vec[last'.v].size}
          /\ \A b \in Blocks : heap'[b].alloc = heap[b].alloc
          /\ last'.ret = last'.arg]_vars

\* An Erase of the first of three elements
EraseRemovesAtPosWitness ==
    /\ last.op = "Erase" /\ ~last.ex
    /\ last.arg = 0
    /\ Contents(vec[last.v], heap) = <<1, 0>>
    /\ LiveSlots(vec[last.v], heap) = {1, 2}
    /\ vec[last.v].data.capacity = 4

\* C15: PopBack called with size == 0 stops at a failed assertion before
\* size is changed or a slot is destroyed, so PopBack never breaks
\* size <= capacity.
PopBackChecksEmpty ==
    [][(last'.op = "PopBack" /\ vec[last'.v].size = 0)
       => /\ last'.path = "assert"
          /\ vec' = vec /\ heap' = heap
          /\ vec'[last'.v].size <= vec'[last'.v].data.capacity]_vars

\* A PopBack on an empty Vector returned with size wrapped round
PopBackWrapsSize ==
    /\ last.op = "PopBack" /\ last.path = "incap"
    /\ vec[last.v].size = 2 ^ SizeBits - 1
    /\ vec[last.v].data.capacity = 0

\* C16: when the allocation of a call fails, the failure propagates and
\* every Vector and every block is as before the call: size, capacity, the
\* elements and the live slots.
AllocationComesFirst ==
    [][(last'.ex /\ last'.at = "alloc") => (vec' = vec /\ heap' = heap)]_vars

\* A copy assignment into a smaller, non-empty Vector whose allocation failed
AllocationComesFirstWitness ==
    /\ last.op = "CopyAssign" /\ last.ex /\ last.at = "alloc" /\ last.path = "copy-swap"
    /\ Contents(vec[last.v], heap) = <<1>>
    /\ Contents(vec[last.w], heap) = <<0, 1>>

\* C17: when a = b throws, a's size and capacity are those before the call;
\* on the branch that copies b into a temporary, a's elements are unchanged
\* too and a's buffer is still allocated.
CopyAssignSetsSizeLast ==
    [][(last'.op = "CopyAssign" /\ last'.ex)
       => /\ vec'[last'.v].size = vec[last'.v].size
          /\ vec'[last'.v].data.capacity = vec[last'.v].data.capacity
          /\ (last'.path = "copy-swap")
             => /\ vec'[last'.v] = vec[last'.v]
                /\ Contents(vec'[last'.v], heap') = Contents(vec[last'.v], heap)
                /\ \A b \in Blocks : heap[b].alloc => heap'[b] = heap[b]]_vars

\* A copy assignment within capacity that assigned one element and threw in
\* the copy construction of the next
CopyAssignSetsSizeLastWitness ==
    /\ last.op = "CopyAssign" /\ last.ex /\ last.path = "grow" /\ last.at = "copy"
    /\ vec[last.v].size = 1 /\ vec[last.w].size = 2

\* The smaller of two numbers
Min(x, y) == IF x <= y THEN x ELSE y

\* C18: a Resize(n) that returns leaves size = n and the elements at
\* [0, min(old size, n)) as they were; shrinking destroys exactly the slots
\* [n, old size) and keeps the capacity; growing value-initializes
\* [old size, n) with capacity max(old capacity, n); n = old size changes
\* nothing.
ResizeSetsSize ==
    [][(last'.op = "Resize" /\ ~last'.ex)
       => LET old == vec[last'.v]
              new == vec'[last'.v]
              n == last'.arg
          IN /\ new.size = n
             /\ \A j \in 1..Min(old.size, n) :
                    Contents(new, heap')[j] = Contents(old, heap)[j]
             /\ (n < old.size)
                => /\ LiveSlots(new, heap') = LiveSlots(old, heap) \ ((n + 1)..old.size)
                   /\ new.data = old.data
             /\ (n > old.size)
                => /\ \A j \in (old.size + 1)..n : Contents(new, heap')[j] = Default
                   /\ new.data.capacity = Max(old.data.capacity, n)
             /\ (n = old.size) => (vec' = vec /\ heap' = heap)]_vars

\* A Resize(3) of a Vector of one element that reallocated
ResizeSetsSizeWitness ==
    /\ last.op = "Resize" /\ ~last.ex /\ last.path = "realloc"
    /\ last.arg = 3
    /\ Contents(vec[last.v], heap) = <<1, 0, 0>>

InsertCopiesArgumentOnEntry ==
    (last.op = "InsertAlias" /\ ~last.ex)
    => Contents(vec[last.v], heap)[last.arg + 1] = last.val

\* An Insert at begin() of the second of two elements, within capacity, that
\* inserted the value of the first
InsertedShiftedValue ==
    /\ last.op = "InsertAlias" /\ ~last.ex /\ last.path = "shift"
    /\ last.arg = 0 /\ last.val = 1
    /\ Contents(vec[last.v], heap) = <<0, 0, 1>>

====
